---- MODULE Spec2Model ----
(***************************************************************************)
(* Model of rust/common/proxied.rs: the View / Mut proxy capabilities      *)
(* (traits Proxied, ViewFor, MutFor), the example aggregate MyProxied with *)
(* its proxies MyProxiedView / MyProxiedMut, and the reborrow functions of *)
(* its tests.                                                              *)
(*                                                                         *)
(* The operations are type-level contracts, so the state machine is the    *)
(* borrow discipline their signatures impose.  A lifetime is a lexical     *)
(* scope, written as its nesting depth: scope 0 is the outermost, and a    *)
(* smaller depth is a longer lifetime.  'a: 'b ("'a outlives 'b") is       *)
(* a <= b.                                                                 *)
(*                                                                         *)
(* A proxy value carries my_proxied_ref (the aggregate it points at), msg  *)
(* (its lifetime parameter 'msg) and holder (the scope owning the value: a *)
(* borrow of the proxy cannot outlive it).  level counts the exclusive     *)
(* borrows between the aggregate and the proxy: a View taken from the      *)
(* aggregate has level 0, the Mut issued by the aggregate level 1, and     *)
(* MutFor::as_mut adds one.  A borrow is live while a proxy derived from   *)
(* it is live.  pinned and lentWrite belong to a Mut that has been lent by *)
(* MutFor::as_mut: pinned says the loan's region outlives 'msg, lentWrite  *)
(* (history) that a proxy reborrowed from it has called set_val.           *)
(*                                                                         *)
(* An operation the compiler rejects is an action that is not enabled:     *)
(* X_ok is what the compiler demands of a call of X.                       *)
(***************************************************************************)
EXTENDS Integers, FiniteSets, Sequences, TLC

\* Deepest nesting of scopes explored.
MaxDepth == 2
\* Number of proxy values that can exist at once.
MaxProxies == 2

Scopes == 0..MaxDepth
\* The aggregates of the tests (`my_proxied`, `other_proxied`).
MyProxiedNames == {"my_proxied", "other_proxied"}
\* The values test_mut_access gives the `val` field.
Strings == {"Hello World", "Hello indeed"}

VARIABLES
    depth,      \* the innermost live scope
    proxied,    \* MyProxied aggregates: name -> aggregate record
    proxies,    \* the set of live proxy values
    arr         \* the array built by the last step, <<>> when it built none

vars == <<depth, proxied, proxies, arr>>

NoProxied == [live |-> FALSE, val |-> "", holder |-> 0]
\* struct MyProxied { val: String }
MyProxied(s, h) == [live |-> TRUE, val |-> s, holder |-> h]
\* struct MyProxiedView<'msg> { my_proxied_ref: &'msg MyProxied }
MyProxiedView(r, m, h, lv) ==
    [kind |-> "View", my_proxied_ref |-> r, msg |-> m, holder |-> h,
     level |-> lv, pinned |-> FALSE, lentWrite |-> FALSE]
\* struct MyProxiedMut<'msg> { my_proxied_ref: &'msg mut MyProxied }
MyProxiedMut(r, m, h, lv) ==
    [kind |-> "Mut", my_proxied_ref |-> r, msg |-> m, holder |-> h,
     level |-> lv, pinned |-> FALSE, lentWrite |-> FALSE]

\* 'a: 'b
Outlives(a, b) == a <= b

Live == proxies
ViewsOf(P) == {p \in P : p.kind = "View"}
MutsOf(P) == {p \in P : p.kind = "Mut"}
Views == ViewsOf(Live)
Muts == MutsOf(Live)

\* The proxies that hold a shared borrow of the lender at `level` over a.
SharedBy(a, level) == {v \in Views : v.my_proxied_ref = a /\ v.level = level}
\* The proxies that descend from an exclusive borrow of that lender.
ExclBy(a, level) == {p \in Live : p.my_proxied_ref = a /\ p.level > level}

\* A borrow is live while a proxy derived from it is.  A shared borrow (&x)
\* is allowed when no exclusive borrow of x is live; an exclusive borrow
\* (&mut x) or a move of x needs x not to be borrowed at all.
AggCanShare(a) == ExclBy(a, 0) = {}

\* &mut self that overlooks the exclusive borrows of the aggregate.
AggCanExcl_overlooking(a) == SharedBy(a, 0) = {}

AggCanExcl(a) == ExclBy(a, 0) = {} /\ SharedBy(a, 0) = {}

\* m.pinned: m has been lent exclusively for a region that outlives 'msg, so
\* that borrow is live wherever m is.
CanShare(m) == ~m.pinned /\ ExclBy(m.my_proxied_ref, m.level) = {}
CanExcl(m) == CanShare(m) /\ SharedBy(m.my_proxied_ref, m.level) = {}

Put(B, p) == B \cup {p}
Take(B, p) == B \ {p}
HasFree == Cardinality(proxies) < MaxProxies

\* MyProxiedView::val
val(p) == proxied[p.my_proxied_ref].val

\* The start of a test: let my_proxied = MyProxied { val: "Hello World" }
Init ==
    /\ depth = 0
    /\ proxied = [a \in MyProxiedNames |->
                     IF a = "my_proxied" THEN MyProxied("Hello World", 0) ELSE NoProxied]
    /\ proxies = {}
    /\ arr = <<>>

\* `{`
BeginScope ==
    /\ depth < MaxDepth
    /\ depth' = depth + 1
    /\ arr' = <<>>
    /\ UNCHANGED <<proxied, proxies>>

\* `}`: everything owned by the innermost scope is dropped.
EndScope ==
    /\ depth > 0
    /\ depth' = depth - 1
    /\ proxied' = [a \in MyProxiedNames |->
                      IF proxied[a].live /\ proxied[a].holder = depth
                      THEN NoProxied ELSE proxied[a]]
    /\ proxies' = {q \in Live : q.holder < depth}
    /\ arr' = <<>>

\* let other_proxied = MyProxied { val: .. } in the current scope
NewProxied(a) ==
    /\ ~proxied[a].live
    /\ proxied' = [proxied EXCEPT ![a] = MyProxied("Hello World", depth)]
    /\ arr' = <<>>
    /\ UNCHANGED <<depth, proxies>>

\* MyProxied::as_view(&self) -> View<'_, Self>, self borrowed for region b
MyProxied_as_view_result(a, b) == MyProxiedView(a, b, depth, 0)

MyProxied_as_view_ok(a, b) ==
    /\ proxied[a].live
    /\ Outlives(proxied[a].holder, b)
    /\ b <= depth
    /\ AggCanShare(a)

MyProxied_as_view(a, b) ==
    /\ MyProxied_as_view_ok(a, b)
    /\ HasFree
    /\ proxies' = Put(proxies, MyProxied_as_view_result(a, b))
    /\ arr' = <<>>
    /\ UNCHANGED <<depth, proxied>>

\* MyProxied::as_mut(&mut self) -> Mut<'_, Self>
MyProxied_as_mut_result(a, b) == MyProxiedMut(a, b, depth, 1)

MyProxied_as_mut_ok(a, b) ==
    /\ proxied[a].live
    /\ Outlives(proxied[a].holder, b)
    /\ b <= depth
    /\ AggCanExcl(a)

MyProxied_as_mut(a, b) ==
    /\ MyProxied_as_mut_ok(a, b)
    /\ HasFree
    /\ proxies' = Put(proxies, MyProxied_as_mut_result(a, b))
    /\ arr' = <<>>
    /\ UNCHANGED <<depth, proxied>>

\* ViewFor::as_view(&self) -> View<'_, T> on a View.  Callers are typed
\* against the trait's declaration: the result is bound to the borrow of self
\* (region b), which cannot outlive the scope holding v.
View_as_view_result(v, b) == MyProxiedView(v.my_proxied_ref, b, depth, v.level)

View_as_view_ok(v, b) ==
    /\ v \in Views
    /\ Outlives(v.holder, b)
    /\ b <= depth

\* as_view taking self by value.
View_as_view_consuming(v, b) ==
    /\ View_as_view_ok(v, b)
    /\ proxies' = Put(Take(proxies, v), View_as_view_result(v, b))
    /\ arr' = <<>>
    /\ UNCHANGED <<depth, proxied>>

\* A View is Copy and cannot be lent exclusively through this interface: a
\* borrow of it restricts nothing.
View_as_view(v, b) ==
    /\ View_as_view_ok(v, b)
    /\ HasFree
    /\ proxies' = Put(proxies, View_as_view_result(v, b))
    /\ arr' = <<>>
    /\ UNCHANGED <<depth, proxied>>

\* into_view that returns self at its own lifetime.
View_into_view_result_unnarrowed(v, b) ==
    MyProxiedView(v.my_proxied_ref, v.msg, depth, v.level)

\* ViewFor::into_view<'shorter>(self) -> View<'shorter, T> where 'msg: 'shorter
View_into_view_result(v, b) == MyProxiedView(v.my_proxied_ref, b, depth, v.level)

\* into_view without the bound 'msg: 'shorter.
View_into_view_ok_unbounded(v, b) ==
    /\ v.kind = "View"
    /\ b <= depth

View_into_view_ok(v, b) ==
    /\ v.kind = "View"
    /\ Outlives(v.msg, b)
    /\ b <= depth

\* A View is Copy: `self` by value leaves v in place.
View_into_view(v, b) ==
    /\ v \in Views
    /\ View_into_view_ok(v, b)
    /\ HasFree
    /\ proxies' = Put(proxies, View_into_view_result(v, b))
    /\ arr' = <<>>
    /\ UNCHANGED <<depth, proxied>>

\* MyProxiedMut::set_val(&mut self, new_val)
set_val_ok(m) ==
    /\ m \in Muts
    /\ CanExcl(m)

\* set_val that drops new_val.
set_val_result_dropping(m, new_val) == proxied

set_val_result(m, new_val) ==
    [proxied EXCEPT ![m.my_proxied_ref].val = new_val]

set_val(m, new_val) ==
    /\ set_val_ok(m)
    /\ proxied' = set_val_result(m, new_val)
    /\ proxies' = {IF /\ q.kind = "Mut"
                       /\ q.my_proxied_ref = m.my_proxied_ref
                       /\ q.level < m.level
                    THEN [q EXCEPT !.lentWrite = TRUE] ELSE q : q \in proxies}
    /\ arr' = <<>>
    /\ UNCHANGED depth

\* ViewFor::as_view(&self) -> View<'_, T> on a Mut
Mut_as_view_result(m, b) == MyProxiedView(m.my_proxied_ref, b, depth, m.level)

\* as_view whose result is bound to 'msg instead of the borrow of self.
Mut_as_view_ok_msg(m, b) ==
    /\ m \in Muts
    /\ Outlives(m.msg, b)
    /\ b <= depth
    /\ CanShare(m)

Mut_as_view_ok(m, b) ==
    /\ m \in Muts
    /\ Outlives(m.holder, b)
    /\ b <= depth
    /\ CanShare(m)

Mut_as_view(m, b) ==
    /\ Mut_as_view_ok(m, b)
    /\ HasFree
    /\ proxies' = Put(proxies, Mut_as_view_result(m, b))
    /\ arr' = <<>>
    /\ UNCHANGED <<depth, proxied>>

\* ViewFor::into_view<'shorter>(self) -> View<'shorter, T> on a Mut
Mut_into_view_result(m, b) == MyProxiedView(m.my_proxied_ref, b, depth, m.level)

Mut_into_view_ok(m, b) ==
    /\ m \in Muts
    /\ Outlives(m.msg, b)
    /\ b <= depth
    /\ CanExcl(m)

\* into_view taking &self.
Mut_into_view_borrowing(m, b) ==
    /\ Mut_into_view_ok(m, b)
    /\ HasFree
    /\ proxies' = Put(proxies, Mut_into_view_result(m, b))
    /\ arr' = <<>>
    /\ UNCHANGED <<depth, proxied>>

\* `self` by value: m is consumed.
Mut_into_view(m, b) ==
    /\ Mut_into_view_ok(m, b)
    /\ proxies' = Put(Take(proxies, m), Mut_into_view_result(m, b))
    /\ arr' = <<>>
    /\ UNCHANGED <<depth, proxied>>

\* MutFor::as_mut<'shorter: 'msg>(&'shorter mut self) -> Mut<'shorter, T>:
\* the bound asks 'shorter to outlive 'msg, and &'shorter mut Self is well
\* formed only when Self (which holds 'msg) outlives 'shorter.
as_mut_bound(msg, shorter) == Outlives(shorter, msg) /\ Outlives(msg, shorter)

\* m once it is lent by &'shorter mut self: a region b that outlives 'msg
\* covers every point where m is live, so m stays borrowed for good.
Lent(m, b) == [m EXCEPT !.pinned = @ \/ Outlives(b, m.msg)]

Mut_as_mut_result(m, b) == MyProxiedMut(m.my_proxied_ref, b, depth, m.level + 1)

Mut_as_mut_ok(m, b) ==
    /\ m \in Muts
    /\ as_mut_bound(m.msg, b)
    /\ Outlives(m.holder, b)
    /\ b <= depth
    /\ CanExcl(m)

Mut_as_mut(m, b) ==
    /\ Mut_as_mut_ok(m, b)
    /\ HasFree
    /\ proxies' = Put(Put(Take(proxies, m), Lent(m, b)), Mut_as_mut_result(m, b))
    /\ arr' = <<>>
    /\ UNCHANGED <<depth, proxied>>

\* MutFor::into_mut<'shorter>(self) -> Mut<'shorter, T> where 'msg: 'shorter
Mut_into_mut_result(m, b) == MyProxiedMut(m.my_proxied_ref, b, depth, m.level)

Mut_into_mut_ok(m, b) ==
    /\ m \in Muts
    /\ Outlives(m.msg, b)
    /\ b <= depth
    /\ CanExcl(m)

Mut_into_mut(m, b) ==
    /\ Mut_into_mut_ok(m, b)
    /\ proxies' = Put(Take(proxies, m), Mut_into_mut_result(m, b))
    /\ arr' = <<>>
    /\ UNCHANGED <<depth, proxied>>

\* Passing a proxy by value to, or returning it from, a scope h: a value
\* cannot be held where its lifetime has ended, and a borrowed value cannot
\* be moved.  (A View is Copy: the copy left behind is dropped.)
Move_ok(p, h) ==
    /\ p \in Live
    /\ h /= p.holder
    /\ Outlives(p.msg, h)
    /\ h <= depth
    /\ p.kind = "Mut" => CanExcl(p)

Move(p, h) ==
    /\ Move_ok(p, h)
    /\ proxies' = Put(Take(proxies, p), [p EXCEPT !.holder = h])
    /\ arr' = <<>>
    /\ UNCHANGED <<depth, proxied>>

\* The shorter of two lifetimes.
Shorter(a, b) == IF Outlives(a, b) THEN b ELSE a

\* An element of an array, which is held by the current scope.
Elem(p) == [kind |-> p.kind, my_proxied_ref |-> p.my_proxied_ref, msg |-> p.msg]

\* An array literal that takes elements of any two lifetimes.
Array2_ok_covariant(x, y) == x.kind = y.kind

\* `[x, y]` where x and y are View<_, T> or Mut<_, T> of a type parameter T:
\* the lifetime parameter is invariant, so the two types must be the same.
Array2_ok(x, y) == x.kind = y.kind /\ x.msg = y.msg

\* `[x, y]` in code generic over T.  x and y are two values the caller has
\* given up: they are moved into the array.
Array2(x, y) ==
    /\ x \in Live /\ y \in Live /\ x /= y
    /\ Array2_ok(x, y)
    /\ x.kind = "Mut" => CanExcl(x) /\ CanExcl(y)
    /\ proxies' = Take(Take(proxies, x), y)
    /\ arr' = <<Elem(x), Elem(y)>>
    /\ UNCHANGED <<depth, proxied>>

\* fn reborrow_mut_into_view<'a>(x: Mut<'a, MyProxied>, y: View<'a, MyProxied>)
\*     -> [View<'a, MyProxied>; 2] { [x.into_view(), y] }
\* The arguments have the concrete types MyProxiedMut and MyProxiedView, which
\* hold a reference and are covariant in 'msg: the call takes 'a to be the
\* shorter of the arguments' lifetimes.
reborrow_mut_into_view_ok(x, y) ==
    /\ y \in Views
    /\ Mut_into_view_ok(x, Shorter(x.msg, y.msg))

reborrow_mut_into_view_result(x, y) ==
    <<Elem(Mut_into_view_result(x, Shorter(x.msg, y.msg))),
      Elem([y EXCEPT !.msg = Shorter(x.msg, y.msg)])>>

reborrow_mut_into_view(x, y) ==
    /\ reborrow_mut_into_view_ok(x, y)
    /\ proxies' = Take(Take(proxies, x), y)
    /\ arr' = reborrow_mut_into_view_result(x, y)
    /\ UNCHANGED <<depth, proxied>>

\* fn require_unified_lifetimes<'a>(_x: Mut<'a, MyProxied>, _y: View<'a, MyProxied>) {}
\* called with a Mut and a View of different lifetimes: both are moved in and
\* dropped.
require_unified_lifetimes_ok(x, y) ==
    /\ x \in Muts /\ y \in Views
    /\ CanExcl(x)

require_unified_lifetimes(x, y) ==
    /\ require_unified_lifetimes_ok(x, y)
    /\ proxies' = Take(Take(proxies, x), y)
    /\ arr' = <<>>
    /\ UNCHANGED <<depth, proxied>>

\* fn reborrow_generic_as_view<'a, 'b, T>(x: &'b mut Mut<'a, T>, y: &'b View<'a, T>)
\*     -> [View<'b, T>; 2] where 'a: 'b { [x.as_view(), y.as_view()] }
reborrow_generic_as_view_ok(x, y, b) ==
    /\ x \in Muts /\ y \in Views
    /\ x.msg = y.msg
    /\ Outlives(x.msg, b)
    /\ CanExcl(x)
    /\ Mut_as_view_ok(x, b)
    /\ View_as_view_ok(y, b)
    /\ Array2_ok(Mut_as_view_result(x, b), View_as_view_result(y, b))

reborrow_generic_as_view_result(x, y, b) ==
    <<Elem(Mut_as_view_result(x, b)), Elem(View_as_view_result(y, b))>>

\* x and y are borrowed, not moved: they stay with the caller.
reborrow_generic_as_view(x, y, b) ==
    /\ reborrow_generic_as_view_ok(x, y, b)
    /\ arr' = reborrow_generic_as_view_result(x, y, b)
    /\ UNCHANGED <<depth, proxied, proxies>>

\* fn reborrow_generic_view_into_view<'a, 'b, T>(x: View<'a, T>, y: View<'b, T>)
\*     -> [View<'b, T>; 2] where 'a: 'b { [x.into_view(), y] }
reborrow_generic_view_into_view_ok(x, y) ==
    /\ x \in Views /\ y \in Views /\ x /= y
    /\ Outlives(x.msg, y.msg)
    /\ View_into_view_ok(x, y.msg)
    /\ Array2_ok(View_into_view_result(x, y.msg), y)

reborrow_generic_view_into_view_result(x, y) ==
    <<Elem(View_into_view_result(x, y.msg)), Elem(y)>>

reborrow_generic_view_into_view(x, y) ==
    /\ reborrow_generic_view_into_view_ok(x, y)
    /\ proxies' = Take(Take(proxies, x), y)
    /\ arr' = reborrow_generic_view_into_view_result(x, y)
    /\ UNCHANGED <<depth, proxied>>

\* fn reborrow_generic_mut_into_view<'a, 'b, T>(x: Mut<'a, T>, y: View<'b, T>)
\*     -> [View<'b, T>; 2] where 'a: 'b { [x.into_view(), y] }
reborrow_generic_mut_into_view_ok(x, y) ==
    /\ y \in Views
    /\ Outlives(x.msg, y.msg)
    /\ Mut_into_view_ok(x, y.msg)
    /\ Array2_ok(Mut_into_view_result(x, y.msg), y)

reborrow_generic_mut_into_view_result(x, y) ==
    <<Elem(Mut_into_view_result(x, y.msg)), Elem(y)>>

reborrow_generic_mut_into_view(x, y) ==
    /\ reborrow_generic_mut_into_view_ok(x, y)
    /\ proxies' = Take(Take(proxies, x), y)
    /\ arr' = reborrow_generic_mut_into_view_result(x, y)
    /\ UNCHANGED <<depth, proxied>>

\* fn reborrow_generic_mut_into_mut<'a, 'b, T>(x: Mut<'a, T>, y: Mut<'b, T>)
\*     -> [Mut<'b, T>; 2] where 'a: 'b { [x.into_mut(), y] }
reborrow_generic_mut_into_mut_ok(x, y) ==
    /\ y \in Muts /\ x /= y
    /\ Outlives(x.msg, y.msg)
    /\ Mut_into_mut_ok(x, y.msg)
    /\ CanExcl(y)
    /\ Array2_ok(Mut_into_mut_result(x, y.msg), y)

reborrow_generic_mut_into_mut_result(x, y) ==
    <<Elem(Mut_into_mut_result(x, y.msg)), Elem(y)>>

reborrow_generic_mut_into_mut(x, y) ==
    /\ reborrow_generic_mut_into_mut_ok(x, y)
    /\ proxies' = Take(Take(proxies, x), y)
    /\ arr' = reborrow_generic_mut_into_mut_result(x, y)
    /\ UNCHANGED <<depth, proxied>>

Next ==
    \/ BeginScope
    \/ EndScope
    \/ \E a \in MyProxiedNames : NewProxied(a)
    \/ \E a \in MyProxiedNames, b \in Scopes : MyProxied_as_view(a, b)
    \/ \E a \in MyProxiedNames, b \in Scopes : MyProxied_as_mut(a, b)
    \/ \E v \in Live, b \in Scopes : View_as_view(v, b)
    \/ \E v \in Live, b \in Scopes : View_into_view(v, b)
    \/ \E m \in Live, s \in Strings : set_val(m, s)
    \/ \E m \in Live, b \in Scopes : Mut_as_view(m, b)
    \/ \E m \in Live, b \in Scopes : Mut_into_view(m, b)
    \/ \E m \in Live, b \in Scopes : Mut_as_mut(m, b)
    \/ \E m \in Live, b \in Scopes : Mut_into_mut(m, b)
    \/ \E p \in Live, h \in Scopes : Move(p, h)
    \/ \E x \in Live, y \in Live : Array2(x, y)
    \/ \E x \in Live, y \in Live : reborrow_mut_into_view(x, y)
    \/ \E x \in Live, y \in Live : require_unified_lifetimes(x, y)
    \/ \E x \in Live, y \in Live, b \in Scopes : reborrow_generic_as_view(x, y, b)
    \/ \E x \in Live, y \in Live : reborrow_generic_view_into_view(x, y)
    \/ \E x \in Live, y \in Live : reborrow_generic_mut_into_view(x, y)
    \/ \E x \in Live, y \in Live : reborrow_generic_mut_into_mut(x, y)

Spec == Init /\ [][Next]_vars

(***************************************************************************)
(* Properties.                                                             *)
(***************************************************************************)

\* C1: for every aggregate at most one Mut is usable at a time: Muts of one
\* aggregate sit at different depths of one chain of exclusive borrows and
\* only the last of the chain can be used, the aggregate refuses a second
\* as_mut while a Mut of it is live, and an array of Muts never holds two
\* Muts of one aggregate nor leaves a usable Mut of its aggregates behind.
C1_AtMostOneUsableMut ==
    \A a \in MyProxiedNames :
        /\ Cardinality({m \in Muts : m.my_proxied_ref = a /\ CanShare(m)}) <= 1
        /\ (\E m \in Muts : m.my_proxied_ref = a) =>
               \A b \in Scopes : ~MyProxied_as_mut_ok(a, b)
        /\ \A m, r \in Muts :
               m.my_proxied_ref = a /\ r.my_proxied_ref = a /\ m /= r
                   => m.level /= r.level
        /\ (arr /= <<>> /\ arr[1].kind = "Mut") =>
               /\ arr[1].my_proxied_ref /= arr[2].my_proxied_ref
               /\ \A m \in Muts :
                      m.my_proxied_ref \in {arr[1].my_proxied_ref, arr[2].my_proxied_ref}
                          => ~CanShare(m)

\* A Mut m that is lent and the Mut r reborrowed from it by as_mut: r is
\* usable, m is not, and the aggregate issues no other Mut.
C1_Witness ==
    \E m, r \in Muts :
        /\ m.my_proxied_ref = r.my_proxied_ref
        /\ r.level = m.level + 1
        /\ CanExcl(r)
        /\ ~CanShare(m)
        /\ \A b \in Scopes : ~MyProxied_as_mut_ok(m.my_proxied_ref, b)

\* C2: MutFor::as_mut lends and reclaims: a usable Mut m can be reborrowed
\* for any live scope B shorter than its own that the holder of m covers, and
\* m is usable again as soon as nothing reborrowed from it is live.
C2_LendAndReclaim ==
    \A m \in Muts :
        /\ \A b \in Scopes :
               (CanExcl(m) /\ ~Outlives(b, m.msg) /\ Outlives(m.holder, b) /\ b <= depth)
                   => Mut_as_mut_ok(m, b)
        /\ (ExclBy(m.my_proxied_ref, m.level) = {} /\ SharedBy(m.my_proxied_ref, m.level) = {})
               => set_val_ok(m)

\* C3: after m is reborrowed with as_mut, written through the reborrow and
\* the reborrow has ended, m.as_view() is accepted and reads what the
\* aggregate stores.
C3_ReborrowWriteVisible ==
    \A m \in Muts :
        (m.lentWrite /\ ExclBy(m.my_proxied_ref, m.level) = {})
            => /\ Mut_as_view_ok(m, depth)
               /\ val(Mut_as_view_result(m, depth)) = proxied[m.my_proxied_ref].val

\* C4: Mut::into_view consumes the Mut (no step that leaves m in place is an
\* into_view of m; after the step m is gone, a View is there instead and no
\* other Mut has changed); no operation that yields a Mut or writes accepts
\* a View; a step that changes the Muts is no View operation; and every Mut
\* of the next state comes from a Mut of its aggregate or from the aggregate
\* itself, their number growing only by an as_mut of an aggregate or a Mut.
C4_NoMutFromView ==
    \A v \in Views, b \in Scopes :
        /\ ~Mut_as_mut_ok(v, b)
        /\ ~Mut_into_mut_ok(v, b)
        /\ ~set_val_ok(v)

C4_Downgrade ==
    /\ \A m \in Muts :
           IF m \in proxies'
           THEN \A b \in Scopes : ~Mut_into_view(m, b)
           ELSE \A b \in Scopes :
                    Mut_into_view(m, b) =>
                        /\ MutsOf(proxies') = Muts \ {m}
                        /\ Mut_into_view_result(m, b) \in ViewsOf(proxies')
    /\ MutsOf(proxies') /= Muts =>
           \A v \in Views, b \in Scopes : ~View_as_view(v, b) /\ ~View_into_view(v, b)
    /\ \A q \in MutsOf(proxies') :
           \/ \E m \in Muts : m.my_proxied_ref = q.my_proxied_ref
           \/ \E b \in Scopes : MyProxied_as_mut_ok(q.my_proxied_ref, b)
    /\ Cardinality(MutsOf(proxies')) > Cardinality(Muts) =>
           \/ \E a \in MyProxiedNames, b \in Scopes : MyProxied_as_mut(a, b)
           \/ \E m \in Muts, b \in Scopes : Mut_as_mut(m, b)

C4_OneWayDowngrade == []C4_NoMutFromView /\ [][C4_Downgrade]_vars

\* A View that descends from an exclusive borrow, with no Mut of its
\* aggregate left: the Mut it came from was consumed by into_view.
C4_Witness ==
    \E v \in Views :
        /\ v.level >= 1
        /\ \A m \in Muts : m.my_proxied_ref /= v.my_proxied_ref
        /\ \A b \in Scopes : ~MyProxied_as_mut_ok(v.my_proxied_ref, b)

\* C5: lifetimes only narrow: every proxy's aggregate is alive and outlives
\* the proxy's lifetime; and each of as_view, into_view, as_mut, into_mut is
\* accepted only for a live target scope that its source outlives, which is
\* then the lifetime of the result (a target the source does not outlive, or
\* that is no live scope, is rejected).
C5_ScopesOnlyNarrow ==
    /\ \A p \in Live :
           /\ proxied[p.my_proxied_ref].live
           /\ Outlives(proxied[p.my_proxied_ref].holder, p.msg)
           /\ p.msg <= depth
    /\ \A a \in MyProxiedNames, b \in Scopes :
           /\ MyProxied_as_view_ok(a, b) =>
                  /\ Outlives(proxied[a].holder, MyProxied_as_view_result(a, b).msg)
                  /\ b <= depth
           /\ MyProxied_as_mut_ok(a, b) =>
                  /\ Outlives(proxied[a].holder, MyProxied_as_mut_result(a, b).msg)
                  /\ b <= depth
    /\ \A p \in Views, b \in Scopes :
           /\ View_as_view_ok(p, b) =>
                  /\ Outlives(p.msg, b)
                  /\ View_as_view_result(p, b).msg = b
                  /\ b <= depth
           /\ View_into_view_ok(p, b) =>
                  /\ Outlives(p.msg, b)
                  /\ View_into_view_result(p, b).msg = b
                  /\ b <= depth
    /\ \A p \in Muts, b \in Scopes :
           /\ Mut_as_view_ok(p, b) =>
                  /\ Outlives(p.msg, b)
                  /\ Mut_as_view_result(p, b).msg = b
                  /\ b <= depth
           /\ Mut_into_view_ok(p, b) =>
                  /\ Outlives(p.msg, b)
                  /\ Mut_into_view_result(p, b).msg = b
                  /\ b <= depth
           /\ Mut_as_mut_ok(p, b) =>
                  /\ Outlives(p.msg, b)
                  /\ Mut_as_mut_result(p, b).msg = b
                  /\ b <= depth
           /\ Mut_into_mut_ok(p, b) =>
                  /\ Outlives(p.msg, b)
                  /\ Mut_into_mut_result(p, b).msg = b
                  /\ b <= depth

\* A Mut r reborrowed from m by as_mut (at m's lifetime) and then narrowed by
\* into_mut: its lifetime is shorter than m's, and going back is rejected.
C5_Witness ==
    \E m, r \in Muts :
        /\ m.my_proxied_ref = r.my_proxied_ref
        /\ r.level = m.level + 1
        /\ m.msg < r.msg
        /\ CanExcl(r)
        /\ ~Mut_into_mut_ok(r, m.msg)
        /\ Mut_into_mut_ok(r, r.msg)

\* C6 (as the code has it): in code generic over the proxied type, [x, y] of
\* two different lifetimes is rejected, and the reborrow functions accept x
\* of the longer lifetime once it is narrowed by into_view / into_mut (or
\* both by as_view), giving an array at one lifetime over the same
\* aggregates, whose values no array step changes.  For the concrete
\* MyProxied proxies the lifetimes are unified at the call without a
\* narrowing: reborrow_mut_into_view accepts a usable Mut and a View of any
\* two lifetimes.
C6_Generic ==
    /\ \A x, y \in Live : x.msg /= y.msg => ~Array2_ok(x, y)
    /\ \A x, y \in Views :
           (x /= y /\ Outlives(x.msg, y.msg)) =>
               /\ reborrow_generic_view_into_view_ok(x, y)
               /\ reborrow_generic_view_into_view_result(x, y)
                      = <<Elem([x EXCEPT !.msg = y.msg]), Elem(y)>>
    /\ \A x \in Muts, y \in Views :
           (CanExcl(x) /\ Outlives(x.msg, y.msg)) =>
               /\ reborrow_generic_mut_into_view_ok(x, y)
               /\ reborrow_generic_mut_into_view_result(x, y)
                      = <<Elem([x EXCEPT !.msg = y.msg, !.kind = "View"]), Elem(y)>>
    /\ \A x, y \in Muts :
           (x /= y /\ CanExcl(x) /\ CanExcl(y) /\ Outlives(x.msg, y.msg)) =>
               /\ reborrow_generic_mut_into_mut_ok(x, y)
               /\ reborrow_generic_mut_into_mut_result(x, y)
                      = <<Elem([x EXCEPT !.msg = y.msg]), Elem(y)>>
    /\ \A x \in Muts, y \in Views :
           CanExcl(x) =>
               /\ reborrow_mut_into_view_ok(x, y)
               /\ reborrow_mut_into_view_result(x, y)[1].msg
                      = reborrow_mut_into_view_result(x, y)[2].msg

C6_Unify ==
    arr' /= <<>> =>
        /\ arr'[1].kind = arr'[2].kind
        /\ arr'[1].msg = arr'[2].msg
        /\ proxied' = proxied
        /\ \E x, y \in Live :
               /\ arr'[1].my_proxied_ref = x.my_proxied_ref
               /\ arr'[2].my_proxied_ref = y.my_proxied_ref
               /\ Outlives(x.msg, arr'[1].msg)
               /\ Outlives(y.msg, arr'[2].msg)

C6_Explicit ==
    \A x, y \in Live :
        reborrow_mut_into_view(x, y) => y.msg = arr'[2].msg

C7_AsView ==
    \A v \in Views, b \in Scopes :
        View_as_view(v, b) =>
            /\ v \in proxies'
            /\ View_as_view_result(v, b) \in proxies'
            /\ View_as_view_result(v, b).my_proxied_ref = v.my_proxied_ref
            /\ proxied' = proxied
            /\ proxied'[View_as_view_result(v, b).my_proxied_ref].val = val(v)

C7_AsViewSameValue == [][C7_AsView]_vars

\* A View v and the View w that v.as_view() gave in a scope below the one
\* holding v, both reading "Hello indeed".
C7_Witness ==
    \E v, w \in Views :
        /\ v /= w
        /\ v.my_proxied_ref = w.my_proxied_ref
        /\ v.level = w.level
        /\ w.msg > v.holder
        /\ w = View_as_view_result(v, w.msg)
        /\ View_as_view_ok(v, w.msg)
        /\ val(v) = "Hello indeed"
        /\ val(w) = val(v)

\* C8: for a View v of lifetime A and live scopes B, C with A: B and B: C,
\* into_view to B and then to C is accepted and gives the View that
\* into_view directly to C gives: lifetime C, same aggregate, same value.
C8_IntoViewComposes ==
    \A v \in Views, B \in Scopes, C \in Scopes :
        (Outlives(v.msg, B) /\ Outlives(B, C) /\ C <= depth) =>
            /\ View_into_view_ok(v, B)
            /\ View_into_view_ok(View_into_view_result(v, B), C)
            /\ View_into_view_ok(v, C)
            /\ View_into_view_result(View_into_view_result(v, B), C)
                   = View_into_view_result(v, C)
            /\ View_into_view_result(View_into_view_result(v, B), C).msg = C
            /\ val(View_into_view_result(View_into_view_result(v, B), C)) = val(v)

\* Three nested scopes A, B, C: a View v of lifetime A held in C (what
\* into_view left of a Mut), w narrowed from it to B, which as_view cannot
\* give in C, and C the current scope, to which both can be narrowed.
C8_Witness ==
    \E v, w \in Views :
        /\ v.my_proxied_ref = w.my_proxied_ref
        /\ v.level = w.level
        /\ v.level >= 1
        /\ v.msg < w.msg
        /\ w.msg < v.holder
        /\ v.holder = depth
        /\ ~View_as_view_ok(v, w.msg)
        /\ View_into_view_result(v, w.msg) = w
        /\ View_into_view_ok(w, depth)
        /\ View_into_view_result(w, depth) = View_into_view_result(v, depth)

\* C9: set_val(s) through a Mut stores s in the Mut's aggregate and nothing
\* in any other; the View that as_view takes from a Mut reads the stored
\* value; and the value of a live aggregate changes by no step but a set_val
\* through a Mut of it.
C9_Write ==
    /\ \A m \in Muts, s \in Strings :
           set_val(m, s) =>
               /\ proxied'[m.my_proxied_ref].val = s
               /\ \A a \in MyProxiedNames \ {m.my_proxied_ref} : proxied'[a] = proxied[a]
    /\ \A m \in Muts, b \in Scopes :
           Mut_as_view(m, b) =>
               proxied'[Mut_as_view_result(m, b).my_proxied_ref].val
                   = proxied[m.my_proxied_ref].val
    /\ \A a \in MyProxiedNames :
           (proxied[a].live /\ proxied'[a].live /\ proxied'[a].val /= proxied[a].val) =>
               \E m \in Muts : m.my_proxied_ref = a /\ set_val(m, proxied'[a].val)

C9_WriteVisible == [][C9_Write]_vars

\* test_mut_access: "Hello indeed" was written over "Hello World" through
\* my_mut, and a View taken from my_mut by as_view reads it.
C9_Witness ==
    \E m \in Muts, v \in Views :
        /\ m.my_proxied_ref = "my_proxied"
        /\ v.my_proxied_ref = "my_proxied"
        /\ v.level = m.level
        /\ m.level = 1
        /\ val(v) = "Hello indeed"
        /\ proxied["my_proxied"].val = "Hello indeed"

\* C10: as_view gives a View bound to the borrow of self: its lifetime is
\* the borrow's region, which the scope holding x outlives, so the View can
\* neither get a lifetime that reaches outside that scope nor be held there;
\* into_view gives a View of the whole lifetime of x wherever x is held.
C10_AsViewBoundToBorrow ==
    /\ \A x \in Views, b \in Scopes :
           View_as_view_ok(x, b) =>
               /\ View_as_view_result(x, b).msg = b
               /\ Outlives(x.holder, b)
               /\ \A h \in Scopes :
                      h < x.holder => ~Outlives(View_as_view_result(x, b).msg, h)
    /\ \A x \in Muts, b \in Scopes :
           Mut_as_view_ok(x, b) =>
               /\ Mut_as_view_result(x, b).msg = b
               /\ Outlives(x.holder, b)
               /\ \A h \in Scopes :
                      h < x.holder => ~Outlives(Mut_as_view_result(x, b).msg, h)
    /\ \A p \in Live : Outlives(p.msg, p.holder)
    /\ \A v \in Views :
           /\ View_into_view_ok(v, v.msg)
           /\ View_into_view_result(v, v.msg).msg = v.msg
    /\ \A m \in Muts :
           CanExcl(m) =>
               /\ Mut_into_view_ok(m, m.msg)
               /\ Mut_into_view_result(m, m.msg).msg = m.msg

\* A Mut x of a lifetime longer than the scope that holds it (x was passed
\* into that scope) and the View x.as_view() gave there.
C10_Witness ==
    \E x \in Muts, v \in Views :
        /\ x.my_proxied_ref = v.my_proxied_ref
        /\ x.level = v.level
        /\ x.msg < x.holder
        /\ Outlives(x.holder, v.msg)
        /\ v = Mut_as_view_result(x, v.msg)
        /\ ~Mut_as_view_ok(x, x.msg)
====
